---------------------------- MODULE Spec2Model ----------------------------
(***************************************************************************)
(* A model of the MT19937 generator of src/mersenne-twister.cpp: the       *)
(* process-wide state (the array MT and the cursor index), seed(),         *)
(* generate_numbers() and rand_u32(), at their real size (624 words of 32  *)
(* bits).                                                                  *)
(*                                                                         *)
(* A uint32_t is modelled as the set of its set bit positions, a subset of *)
(* 0..31 (bit 0 is the least significant): TLC's integers are 32-bit       *)
(* signed, so a uint32_t does not fit in one.  XOR, AND, OR and the shifts *)
(* are set operations that drop every bit shifted past position 31; the    *)
(* multiplication and the addition of seed() are done on 16-bit halves and *)
(* reduced modulo 2^32.                                                    *)
(***************************************************************************)
EXTENDS Integers, Sequences, FiniteSets, TLC

(***************************************************************************)
(* Program constants.                                                      *)
(***************************************************************************)
SIZE == 624
PERIOD == 397
DIFF == SIZE - PERIOD

(***************************************************************************)
(* uint32_t: values, conversions and operators.                            *)
(***************************************************************************)
Word == SUBSET (0..31)

Pow2 == <<1, 2, 4, 8, 16, 32, 64, 128, 256, 512, 1024, 2048, 4096, 8192,
          16384, 32768>>

\* The uint32_t hi * 2^16 + lo, for 16-bit hi and lo.
U32(hi, lo) ==
  {b \in 0..15 : (lo \div Pow2[b + 1]) % 2 = 1}
    \cup {b \in 16..31 : (hi \div Pow2[b - 15]) % 2 = 1}

Bit(w, b) == IF b \in w THEN 1 ELSE 0

\* The low and the high 16 bits of a uint32_t, as numbers.
Lo16(w) ==
  Bit(w, 0) + 2 * Bit(w, 1) + 4 * Bit(w, 2) + 8 * Bit(w, 3)
    + 16 * Bit(w, 4) + 32 * Bit(w, 5) + 64 * Bit(w, 6) + 128 * Bit(w, 7)
    + 256 * Bit(w, 8) + 512 * Bit(w, 9) + 1024 * Bit(w, 10)
    + 2048 * Bit(w, 11) + 4096 * Bit(w, 12) + 8192 * Bit(w, 13)
    + 16384 * Bit(w, 14) + 32768 * Bit(w, 15)

Hi16(w) ==
  Bit(w, 16) + 2 * Bit(w, 17) + 4 * Bit(w, 18) + 8 * Bit(w, 19)
    + 16 * Bit(w, 20) + 32 * Bit(w, 21) + 64 * Bit(w, 22) + 128 * Bit(w, 23)
    + 256 * Bit(w, 24) + 512 * Bit(w, 25) + 1024 * Bit(w, 26)
    + 2048 * Bit(w, 27) + 4096 * Bit(w, 28) + 8192 * Bit(w, 29)
    + 16384 * Bit(w, 30) + 32768 * Bit(w, 31)

XOR(a, b) == (a \ b) \cup (b \ a)
AND(a, b) == a \cap b
OR(a, b) == a \cup b

\* a >> k and a << k on uint32_t: bits leaving 0..31 are discarded.
SHR(a, k) == {b - k : b \in {c \in a : c >= k}}
SHL(a, k) == {b + k : b \in {c \in a : c + k <= 31}}

\* int32_t(a) >> k as the compilers of this code do it: the sign bit (bit 31)
\* is copied into the vacated positions.
SAR(a, k) == SHR(a, k) \cup (IF 31 \in a THEN (32 - k)..31 ELSE {})

\* A uint32_t as the pair <<high half, low half>> of 16-bit numbers, for the
\* arithmetic.
Halves(w) == <<Hi16(w), Lo16(w)>>
FromHalves(h) == U32(h[1], h[2])

\* The low 16 bits of p * q, for 16-bit p and q, without leaving 31 bits.
MulLo16(p, q) ==
  (p * (q % 256) + ((p * (q \div 256)) % 256) * 256) % 65536

\* a * b on uint32_t, on halves: the product modulo 2^32.
MulH(a, b) ==
  LET p0 == a[2] * (b[2] % 256)
      p1 == a[2] * (b[2] \div 256)
      t  == p0 + (p1 % 256) * 256
      hi == (t \div 65536) + (p1 \div 256)
              + MulLo16(a[2], b[1]) + MulLo16(a[1], b[2])
  IN  <<hi % 65536, t % 65536>>

\* a + b on uint32_t, on halves: the sum modulo 2^32.
AddH(a, b) ==
  LET lo == a[2] + b[2]
      hi == a[1] + b[1] + (lo \div 65536)
  IN  <<hi % 65536, lo % 65536>>

Mul32(a, b) == FromHalves(MulH(Halves(a), Halves(b)))
Add32(a, b) == FromHalves(AddH(Halves(a), Halves(b)))

MAGIC == U32(\h9908, \hb0df)

\* #define M32(x) (0x80000000 & x) and #define L31(x) (0x7FFFFFFF & x)
Mask32nd == U32(\h8000, \h0000)
Mask31 == U32(\h7FFF, \hFFFF)
M32(x) == AND(Mask32nd, x)
L31(x) == AND(Mask31, x)


(***************************************************************************)
(* The array MT during one call.  A frame holds the array, the local       *)
(* variable i of the running loop, and a record of the array accesses the  *)
(* call has made so far: lo and hi are the least and the greatest index    *)
(* used in any MT[...] expression, nw is the number of writes, and ord     *)
(* says that the writes so far went to the indices 0, 1, 2, ... in that    *)
(* order.                                                                  *)
(***************************************************************************)
LoopDepth == 10

Frame(mt, i0) ==
  [MT |-> mt, i |-> i0, lo |-> SIZE, hi |-> 0 - 1, nw |-> 0, ord |-> TRUE]

InArray(j) == j >= 0 /\ j < SIZE

Used(m, j) ==
  [m EXCEPT !.lo = IF j < @ THEN j ELSE @, !.hi = IF j > @ THEN j ELSE @]

\* The value of MT[j].  An index outside the array reads memory that is not
\* the array's: the access is recorded by Used, the value read is not the
\* model's to know.
Rd(m, j) == IF InArray(j) THEN m.MT[j] ELSE {}

\* MT[j] = v.
Wr(m, j, v) ==
  IF InArray(j)
    THEN [Used(m, j) EXCEPT !.MT[j] = v,
                            !.ord = @ /\ (j = m.nw),
                            !.nw = @ + 1]
    ELSE [Used(m, j) EXCEPT !.ord = FALSE, !.nw = @ + 1]

(***************************************************************************)
(* generate_numbers(): the twist, unrolled as in the source.               *)
(***************************************************************************)
\* Mutant of MagicTerm: the shift back down is forgotten, (y << 31) & MAGIC.
MagicTerm_NoShiftBack(y) == AND(SHL(y, 31), MAGIC)

\* (((int32_t(y) << 31) >> 31) & MAGIC)
MagicTerm(y) == AND(SAR(SHL(y, 31), 31), MAGIC)

\* #define UNROLL(expr): e is the value of expr, an expression in the local i.
UNROLL(m, e) ==
  LET i == m.i
      y == OR(M32(Rd(m, i)), L31(Rd(m, i + 1)))
      v == XOR(XOR(Rd(m, e), SHR(y, 1)), MagicTerm(y))
      w == Wr(Used(Used(Used(m, i), i + 1), e), i, v)
  IN  [w EXCEPT !.i = i + 1]

\* Mutant of While1Cond: the first loop runs one pair too far, i < DIFF.
While1Cond_OnePairMore(m) == m.i < DIFF

\* while ( i<(DIFF-1) ) { UNROLL(i+PERIOD); UNROLL(i+PERIOD); }
While1Cond(m) == m.i < DIFF - 1
UnrollFwd(m) == UNROLL(m, m.i + PERIOD)
While1Body(m) == UnrollFwd(UnrollFwd(m))

\* The loop is run as 2^k guarded iterations (an iteration whose condition is
\* false does nothing), so that the depth of the evaluation stays small.
RECURSIVE While1(_, _)
While1(m, k) ==
  IF ~While1Cond(m) THEN m
  ELSE IF k = 0 THEN While1Body(m)
  ELSE While1(While1(m, k - 1), k - 1)

\* while ( i<(SIZE-1) ) { UNROLL(i-DIFF); ... } with MT_UNROLL_MORE: 11 times.
While2Cond(m) == m.i < SIZE - 1
UnrollBack(m) == UNROLL(m, m.i - DIFF)
Unroll3(m) == UnrollBack(UnrollBack(UnrollBack(m)))
While2Body(m) == UnrollBack(UnrollBack(Unroll3(Unroll3(Unroll3(m)))))

RECURSIVE While2(_, _)
While2(m, k) ==
  IF ~While2Cond(m) THEN m
  ELSE IF k = 0 THEN While2Body(m)
  ELSE While2(While2(m, k - 1), k - 1)

\* Mutant of LastStep: the source word is MT[PERIOD] instead of MT[PERIOD-1].
LastStep_WrongSource(m) ==
  LET y == OR(M32(Rd(m, SIZE - 1)), L31(Rd(m, 0)))
      v == XOR(XOR(Rd(m, PERIOD), SHR(y, 1)), MagicTerm(y))
  IN  Wr(Used(Used(Used(m, SIZE - 1), 0), PERIOD), SIZE - 1, v)

\* i = 226: UNROLL((i+PERIOD) % SIZE)
UnrollWrap(m) == UNROLL(m, (m.i + PERIOD) % SIZE)

\* The last element, i = 623, written out in the source.
LastStep(m) ==
  LET y == OR(M32(Rd(m, SIZE - 1)), L31(Rd(m, 0)))
      v == XOR(XOR(Rd(m, PERIOD - 1), SHR(y, 1)), MagicTerm(y))
  IN  Wr(Used(Used(Used(m, SIZE - 1), 0), PERIOD - 1), SIZE - 1, v)

\* generate_numbers() on the array mt: the frame it ends in.
generate_numbers(mt) ==
  LastStep(While2(UnrollWrap(While1(Frame(mt, 0), LoopDepth)), LoopDepth))

(***************************************************************************)
(* seed(value).                                                            *)
(***************************************************************************)
\* MT[i] = 0x6c078965*(MT[i-1] ^ MT[i-1]>>30) + i
Multiplier == <<\h6c07, \h8965>>

\* Mutant of SeedBody: the "+ i" of the recurrence is left out.
SeedBody_NoIndexTerm(m) ==
  LET i == m.i
      p == Rd(m, i - 1)
      x == XOR(p, SHR(p, 30))
      v == FromHalves(MulH(Multiplier, Halves(x)))
  IN  [Wr(Used(m, i - 1), i, v) EXCEPT !.i = i + 1]

SeedBody(m) ==
  LET i == m.i
      p == Rd(m, i - 1)
      x == XOR(p, SHR(p, 30))
      v == FromHalves(AddH(MulH(Multiplier, Halves(x)), <<0, i>>))
  IN  [Wr(Used(m, i - 1), i, v) EXCEPT !.i = i + 1]

\* for ( unsigned i=1; i<SIZE; ++i )
SeedCond(m) == m.i < SIZE

RECURSIVE SeedFor(_, _)
SeedFor(m, k) ==
  IF ~SeedCond(m) THEN m
  ELSE IF k = 0 THEN SeedBody(m)
  ELSE SeedFor(SeedFor(m, k - 1), k - 1)

\* The end of seed(): the array of the frame m, index = idx, and the accesses;
\* gens is the number of generate_numbers() calls made.
Seeded(m, idx, gens) ==
  [MT |-> m.MT, index |-> idx, gens |-> gens,
   lo |-> m.lo, hi |-> m.hi, nw |-> m.nw, ord |-> m.ord]

\* Mutant of seed: the loop starts at i=2, so MT[1] keeps its old value.
seed_LoopFromTwo(mt, value) ==
  Seeded(SeedFor([Wr(Frame(mt, 0), 0, value) EXCEPT !.i = 2], LoopDepth),
         SIZE, 0)

\* Mutant of seed: the twist is done at seed time and the cursor set to 0.
seed_EagerTwist(mt, value) ==
  Seeded(generate_numbers(
           SeedFor([Wr(Frame(mt, 0), 0, value) EXCEPT !.i = 1], LoopDepth).MT),
         0, 1)

\* seed(value) called with the array mt: the array, the cursor and the
\* accesses it ends with.
seed(mt, value) ==
  Seeded(SeedFor([Wr(Frame(mt, 0), 0, value) EXCEPT !.i = 1], LoopDepth),
         SIZE, 0)

(***************************************************************************)
(* rand_u32().                                                             *)
(***************************************************************************)
TemperB == U32(\h9d2c, \h5680)
TemperC == U32(\hefc6, \h0000)

\* Mutant of temper: the last step, y ^= (y >> 18), is left out.
temper_NoLastStep(y0) ==
  LET y1 == XOR(y0, SHR(y0, 11))
      y2 == XOR(y1, AND(SHL(y1, 7), TemperB))
  IN  XOR(y2, AND(SHL(y2, 15), TemperC))

temper(y0) ==
  LET y1 == XOR(y0, SHR(y0, 11))
      y2 == XOR(y1, AND(SHL(y1, 7), TemperB))
      y3 == XOR(y2, AND(SHL(y2, 15), TemperC))
  IN  XOR(y3, SHR(y3, 18))

\* Mutant of Fetch: the cursor is advanced before the read, MT[++index].
Fetch_ReadsNext(g, j, step, gens) ==
  [MT |-> g.MT, index |-> j + step, ret |-> temper(Rd(g, j + 1)),
   gens |-> gens,
   lo |-> Used(g, j + 1).lo, hi |-> Used(g, j + 1).hi,
   nw |-> g.nw, ord |-> g.ord]

\* uint32_t y = MT[index++] and the tempering, in the frame g with the cursor
\* at j: the cursor moves by step, and gens generate_numbers() calls were made.
Fetch(g, j, step, gens) ==
  [MT |-> g.MT, index |-> j + step, ret |-> temper(Rd(g, j)), gens |-> gens,
   lo |-> Used(g, j).lo, hi |-> Used(g, j).hi, nw |-> g.nw, ord |-> g.ord]

\* Mutant of rand_u32: the cursor is advanced twice, MT[index++] and ++index.
rand_u32_SkipsWord(mt, idx) ==
  IF idx = SIZE
    THEN Fetch(generate_numbers(mt), 0, 2, 1)
    ELSE Fetch(Frame(mt, 0), idx, 2, 0)

\* rand_u32() called with the array mt and the cursor idx: the array, the
\* cursor, the value returned, the number of generate_numbers() calls made
\* (gens) and the accesses.
rand_u32(mt, idx) ==
  IF idx = SIZE
    THEN Fetch(generate_numbers(mt), 0, 1, 1)
    ELSE Fetch(Frame(mt, 0), idx, 1, 0)

(***************************************************************************)
(* The generator of the specification (sections 4.1 to 4.4), which is the  *)
(* canonical MT19937 the tests compare with: seeding, the straightforward  *)
(* left-to-right twist, the tempered draw and the range-restricted draw.   *)
(* It is written from the specification and shares only the uint32_t       *)
(* operators with the model of the code.                                   *)
(***************************************************************************)
\* words[i] = (0x6c078965 * (words[i-1] XOR (words[i-1] >> 30)) + i)
SpecSeedStep(s) ==
  IF s.i >= SIZE THEN s
  ELSE LET p == s.words[s.i - 1]
           x == Halves(XOR(p, SHR(p, 30)))
           v == FromHalves(AddH(MulH(<<27655, 35173>>, x), <<0, s.i>>))
       IN  [words |-> [s.words EXCEPT ![s.i] = v], i |-> s.i + 1]

RECURSIVE SpecSeedRun(_, _)
SpecSeedRun(s, k) ==
  IF s.i >= SIZE THEN s
  ELSE IF k = 0 THEN SpecSeedStep(s)
  ELSE SpecSeedRun(SpecSeedRun(s, k - 1), k - 1)

\* seed(value) -> GeneratorState
SpecSeed(value) ==
  LET s == SpecSeedRun([words |-> [j \in 0..(SIZE - 1) |->
                                     IF j = 0 THEN value ELSE {}],
                        i |-> 1], LoopDepth)
  IN  [words |-> s.words, cursor |-> SIZE]

\* One index of the naive pass.
NaiveStep(s) ==
  IF s.i >= SIZE THEN s
  ELSE LET i == s.i
           y == (s.words[i] \cap {31}) \cup (s.words[(i + 1) % SIZE] \ {31})
           n == XOR(s.words[(i + PERIOD) % SIZE], SHR(y, 1))
           next == IF 0 \in y THEN XOR(n, U32(39176, 45279)) ELSE n
       IN  [words |-> [s.words EXCEPT ![i] = next], i |-> i + 1]

RECURSIVE NaiveRun(_, _)
NaiveRun(s, k) ==
  IF s.i >= SIZE THEN s
  ELSE IF k = 0 THEN NaiveStep(s)
  ELSE NaiveRun(NaiveRun(s, k - 1), k - 1)

\* twist(state): for i = 0..623 in increasing order.
NaiveTwist(words) == NaiveRun([words |-> words, i |-> 0], LoopDepth).words

SpecTemper(y0) ==
  LET y1 == XOR(y0, SHR(y0, 11))
      y2 == XOR(y1, SHL(y1, 7) \cap U32(40236, 22144))
      y3 == XOR(y2, SHL(y2, 15) \cap U32(61382, 0))
  IN  XOR(y3, SHR(y3, 18))

\* next_u32(state)
next_u32(g) ==
  LET w == IF g.cursor = SIZE THEN NaiveTwist(g.words) ELSE g.words
      c == IF g.cursor = SIZE THEN 0 ELSE g.cursor
  IN  [words |-> w, cursor |-> c + 1, ret |-> SpecTemper(w[c])]

\* next_i31(state) = next_u32(state) & 0x7FFFFFFF.  The header declares it as
\* rand(); no file of src/ defines it.
Clear32nd(r) == [r EXCEPT !.ret = AND(@, Mask31)]
rand(mt, idx) == Clear32nd(rand_u32(mt, idx))

(***************************************************************************)
(* The sequential program: one caller of seed(), rand_u32() and rand().    *)
(***************************************************************************)
NumSeeds == 3
MaxDraws == 626
ReseedWindow == 2

SeedTable ==
  <<U32(0, 0), U32(\hFFFF, \hFFFF), U32(0, 5489), U32(0, 1), U32(0, 5769),
    U32(\h8000, \h0000)>>
Seeds == {SeedTable[k] : k \in 1..NumSeeds}

VARIABLES
  MT,      \* static uint32_t MT[SIZE]
  index,   \* static int index
  op,      \* the last call made: "none", "seed", "rand_u32", "rand", ...
  arg,     \* the value passed to the last seed() call
  ret,     \* the value the last rand_u32() or rand() call returned
  draws,   \* the number of draws since the last seed() call (or the start)
  call,    \* what the last call did: twists made, array indices used
  seeded,  \* seed() has been called
  ref,     \* the specification's generator (SpecDiff, SpecTwist)
  refret,  \* the value its last draw returned
  hist,    \* how the last seed() call came about (SpecDiff)
  pc,      \* where each thread is in its rand_u32() call (SpecConc)
  loc,     \* each thread's locals (SpecConc)
  emit     \* the array elements read by draws, in order (SpecConc)

pvars == <<MT, index, op, arg, ret, draws, call, seeded>>
dvars == <<ref, refret, hist>>
cvars == <<pc, loc, emit>>
vars ==
  <<MT, index, op, arg, ret, draws, call, seeded, ref, refret, hist,
    pc, loc, emit>>

ZeroArray == [j \in 0..(SIZE - 1) |-> {}]

NoCall == [gens |-> 0, lo |-> SIZE, hi |-> 0 - 1, nw |-> 0, ord |-> TRUE]
CallOf(r) ==
  [gens |-> r.gens, lo |-> r.lo, hi |-> r.hi, nw |-> r.nw, ord |-> r.ord]

NoHist == [reseeded |-> FALSE, at |-> 0 - 1]

NumThreads == 2
Threads == 1..NumThreads
NoLocals == [i |-> 0, y |-> {}]

\* static storage is zero-initialised; static int index = SIZE.
Init ==
  /\ MT = ZeroArray
  /\ index = SIZE
  /\ op = "none"
  /\ arg = {}
  /\ ret = {}
  /\ draws = 0
  /\ call = NoCall
  /\ seeded = FALSE
  /\ ref = [words |-> <<>>, cursor |-> 0]
  /\ refret = {}
  /\ hist = NoHist
  /\ pc = [t \in Threads |-> "idle"]
  /\ loc = [t \in Threads |-> NoLocals]
  /\ emit = <<>>

\* The caller reseeds at the start of a batch, near its end, or just after it.
CanReseed ==
  \/ draws % SIZE <= ReseedWindow
  \/ draws % SIZE >= SIZE - ReseedWindow

\* The statics and the record of the call, after a call that ended in r.
Returns(r) ==
  /\ MT' = r.MT
  /\ index' = r.index
  /\ call' = CallOf(r)

ReturnsValue(r) ==
  /\ Returns(r)
  /\ ret' = r.ret

Seed(value) ==
  /\ CanReseed
  /\ Returns(seed(MT, value))
  /\ op' = "seed"
  /\ arg' = value
  /\ ret' = {}
  /\ draws' = 0
  /\ seeded' = TRUE

RandU32 ==
  /\ draws < MaxDraws
  /\ ReturnsValue(rand_u32(MT, index))
  /\ op' = "rand_u32"
  /\ draws' = draws + 1
  /\ UNCHANGED <<arg, seeded>>

Rand ==
  /\ draws < MaxDraws
  /\ ReturnsValue(rand(MT, index))
  /\ op' = "rand"
  /\ draws' = draws + 1
  /\ UNCHANGED <<arg, seeded>>

Next ==
  \/ \E value \in Seeds : Seed(value) /\ UNCHANGED <<dvars, cvars>>
  \/ RandU32 /\ UNCHANGED <<dvars, cvars>>
  \/ Rand /\ UNCHANGED <<dvars, cvars>>

Spec == Init /\ [][Next]_vars

(***************************************************************************)
(* The differential test of src/test-mt.cpp: the program and the           *)
(* specification's generator are seeded with the same value and drawn in   *)
(* step, one seed after another.  hist records whether the last seed()     *)
(* call came after draws made under a different seed and, until the next   *)
(* draw, where the cursor stood when it was called.                        *)
(***************************************************************************)
RefSeed(value) ==
  /\ ref' = SpecSeed(value)
  /\ refret' = {}
  /\ hist' = IF seeded /\ draws > 0 /\ arg # value
               THEN [reseeded |-> TRUE, at |-> index]
               ELSE NoHist

\* Before the first seed() there is no GeneratorState to draw from.
RefDraw ==
  /\ IF seeded
       THEN LET g == next_u32(ref)
            IN  /\ ref' = [words |-> g.words, cursor |-> g.cursor]
                /\ refret' = g.ret
       ELSE UNCHANGED <<ref, refret>>
  /\ hist' = [hist EXCEPT !.at = 0 - 1]

NextDiff ==
  \/ \E value \in Seeds : Seed(value) /\ RefSeed(value) /\ UNCHANGED cvars
  \/ RandU32 /\ RefDraw /\ UNCHANGED cvars

SpecDiff == Init /\ [][NextDiff]_vars

(***************************************************************************)
(* generate_numbers() as a function of the array: it is applied, next to   *)
(* the naive pass of the specification, to arrays that put a single word   *)
(* at the seams of the unrolled loops, to uniform arrays and to seeded     *)
(* arrays, and then to its own results.                                    *)
(***************************************************************************)
MaxTwists == 4

EdgeIndices == {0, 1, DIFF - 1, DIFF, PERIOD - 1, PERIOD, SIZE - 2, SIZE - 1}
EdgeWords == {{0}, {1}, {31}, 0..31}

OneWord(k, w) == [j \in 0..(SIZE - 1) |-> IF j = k THEN w ELSE {}]

TwistInputs ==
  {ZeroArray, [j \in 0..(SIZE - 1) |-> 0..31]}
    \cup {seed(ZeroArray, v).MT : v \in Seeds}
    \cup {OneWord(k, w) : k \in EdgeIndices, w \in EdgeWords}

InitTwist ==
  /\ MT \in TwistInputs
  /\ index = SIZE
  /\ op = "none"
  /\ arg = {}
  /\ ret = {}
  /\ draws = 0
  /\ call = NoCall
  /\ seeded = FALSE
  /\ ref = [words |-> MT, cursor |-> SIZE]
  /\ refret = {}
  /\ hist = NoHist
  /\ pc = [t \in Threads |-> "idle"]
  /\ loc = [t \in Threads |-> NoLocals]
  /\ emit = <<>>

Twist ==
  /\ draws < MaxTwists
  /\ LET g == generate_numbers(MT)
     IN  /\ MT' = g.MT
         /\ call' = [gens |-> 1, lo |-> g.lo, hi |-> g.hi,
                     nw |-> g.nw, ord |-> g.ord]
  /\ ref' = [ref EXCEPT !.words = NaiveTwist(ref.words)]
  /\ op' = "generate_numbers"
  /\ draws' = draws + 1
  /\ UNCHANGED <<index, arg, ret, seeded, refret, hist, cvars>>

NextTwist == Twist

SpecTwist == InitTwist /\ [][NextTwist]_vars

(***************************************************************************)
(* Two threads calling rand_u32() on the one process-wide generator.  The  *)
(* source has no lock and no atomic, so the statements of the two calls    *)
(* interleave; a call is cut at its accesses to the shared MT and index:   *)
(* the test of index, generate_numbers(), index = 0, the read MT[index]    *)
(* and the store of index + 1.  The threads start from a state one thread  *)
(* has reached by seed() and a number of draws.                            *)
(***************************************************************************)
MaxConcCalls == 3

ConcStarts == {0, 1, SIZE - 1, SIZE}

\* What a read past the end of the array may return.
Garbage == {{}, 0..31}

InitConc ==
  /\ \E k \in ConcStarts :
       LET s == seed(ZeroArray, SeedTable[1])
       IN  IF k = 0
             THEN MT = s.MT /\ index = SIZE
             ELSE MT = generate_numbers(s.MT).MT /\ index = k
  /\ op = "none"
  /\ arg = SeedTable[1]
  /\ ret = {}
  /\ draws = 0
  /\ call = NoCall
  /\ seeded = TRUE
  /\ ref = [words |-> <<>>, cursor |-> 0]
  /\ refret = {}
  /\ hist = NoHist
  /\ pc = [t \in Threads |-> "idle"]
  /\ loc = [t \in Threads |-> NoLocals]
  /\ emit = <<>>

\* A thread enters rand_u32().
Call(t) ==
  /\ pc[t] = "idle"
  /\ draws < MaxConcCalls
  /\ draws' = draws + 1
  /\ pc' = [pc EXCEPT ![t] = "test"]
  /\ UNCHANGED <<MT, index, op, arg, ret, call, seeded, dvars, loc, emit>>

\* if ( index == SIZE )
Test(t) ==
  /\ pc[t] = "test"
  /\ pc' = [pc EXCEPT ![t] = IF index = SIZE THEN "gen" ELSE "read"]
  /\ UNCHANGED <<pvars, dvars, loc, emit>>

\* generate_numbers();
Gen(t) ==
  /\ pc[t] = "gen"
  /\ MT' = generate_numbers(MT).MT
  /\ call' = [call EXCEPT !.gens = @ + 1]
  /\ pc' = [pc EXCEPT ![t] = "reset"]
  /\ UNCHANGED <<index, op, arg, ret, draws, seeded, dvars, loc, emit>>

\* index = 0;
Reset(t) ==
  /\ pc[t] = "reset"
  /\ index' = 0
  /\ pc' = [pc EXCEPT ![t] = "read"]
  /\ UNCHANGED <<MT, op, arg, ret, draws, call, seeded, dvars, loc, emit>>

\* uint32_t y = MT[index++]; the load of index and of MT[index].
Read(t) ==
  /\ pc[t] = "read"
  /\ \E y \in (IF InArray(index) THEN {MT[index]} ELSE Garbage) :
       loc' = [loc EXCEPT ![t] = [i |-> index, y |-> y]]
  /\ call' = [call EXCEPT !.lo = IF index < @ THEN index ELSE @,
                          !.hi = IF index > @ THEN index ELSE @]
  /\ emit' = Append(emit, <<call.gens, index>>)
  /\ pc' = [pc EXCEPT ![t] = "incr"]
  /\ UNCHANGED <<MT, index, op, arg, ret, draws, seeded, dvars>>

\* uint32_t y = MT[index++]; the store of the incremented index.
Incr(t) ==
  /\ pc[t] = "incr"
  /\ index' = loc[t].i + 1
  /\ pc' = [pc EXCEPT ![t] = "ret"]
  /\ UNCHANGED <<MT, op, arg, ret, draws, call, seeded, dvars, loc, emit>>

\* The tempering and return y;
Return(t) ==
  /\ pc[t] = "ret"
  /\ ret' = temper(loc[t].y)
  /\ op' = "rand_u32"
  /\ pc' = [pc EXCEPT ![t] = "idle"]
  /\ UNCHANGED <<MT, index, arg, draws, call, seeded, dvars, loc, emit>>

NextConc ==
  \E t \in Threads :
    \/ Call(t)
    \/ Test(t)
    \/ Gen(t)
    \/ Reset(t)
    \/ Read(t)
    \/ Incr(t)
    \/ Return(t)

SpecConc == InitConc /\ [][NextConc]_vars

(***************************************************************************)
(* The conditional term of the twist, ((int32_t(y) << 31) >> 31) & MAGIC,  *)
(* on its own.  The two shifts are shifts of a signed 32-bit value.        *)
(* Before C++20 the language leaves them open: the right shift of a        *)
(* negative value is implementation-defined (compilers copy the sign bit,  *)
(* the language also allows zeros to be shifted in), and the left shift is *)
(* undefined when the value is negative or when the result does not fit in *)
(* 32 unsigned bits, which is every y but 0 and 1 (a build that checks     *)
(* signed shifts stops there).  An outcome is a value or a trap; the term  *)
(* has one outcome for each behaviour a build may have.                    *)
(***************************************************************************)
SignedShifts == {"arithmetic", "logical"}

\* int32_t(a) >> k under the build's treatment of negative values.
SignedShr(a, k, sem) == IF sem = "arithmetic" THEN SAR(a, k) ELSE SHR(a, k)

\* int32_t(y) << 31 is defined by every C++ standard only for y = 0 and, from
\* C++14 on, y = 1.
ShlUndefined(y) == (y \ {0}) # {}

MagicTermOn(y, sem) == AND(SignedShr(SHL(y, 31), 31, sem), MAGIC)

MagicTermOutcomes(y) ==
  {[trap |-> FALSE, val |-> MagicTermOn(y, sem)] : sem \in SignedShifts}
    \cup (IF ShlUndefined(y) THEN {[trap |-> TRUE, val |-> {}]} ELSE {})

\* The values of y tried: zero, every single bit, every single bit with bit 0,
\* all ones, and all ones but bit 0.
ShiftInputs ==
  {{}, 0..31, 1..31} \cup {{b} : b \in 0..31} \cup {{0, b} : b \in 1..31}

InitShift ==
  /\ MT = ZeroArray
  /\ index = SIZE
  /\ op = "none"
  /\ arg \in ShiftInputs
  /\ ret = {}
  /\ draws = 0
  /\ call = NoCall
  /\ seeded = FALSE
  /\ ref = [words |-> <<>>, cursor |-> 0]
  /\ refret = {}
  /\ hist = NoHist
  /\ pc = [t \in Threads |-> "idle"]
  /\ loc = [t \in Threads |-> NoLocals]
  /\ emit = <<>>

\* The term is evaluated for y = arg: ret is its value, unless the build
\* trapped.
EvalTerm ==
  /\ op = "none"
  /\ \E o \in MagicTermOutcomes(arg) :
       /\ op' = IF o.trap THEN "trap" ELSE "term"
       /\ ret' = o.val
  /\ UNCHANGED <<MT, index, arg, draws, call, seeded, dvars, cvars>>

NextShift == EvalTerm

SpecShift == InitShift /\ [][NextShift]_vars

(***************************************************************************)
(* The claims.                                                             *)
(***************************************************************************)
IsDraw == op \in {"rand_u32", "rand"}

\* C1: every value rand_u32() returns after seed(s) is the value the
\* reference generator returns at the same position after the same seed,
\* also past the first twist boundary and after a reseed (SpecDiff).
C1_MatchesReference ==
  (seeded /\ op = "rand_u32") => ret = refret

\* C1, witness: a draw past the first twist boundary, under a seed that was
\* set after draws made under a different seed.
C1_Witness ==
  /\ seeded /\ op = "rand_u32"
  /\ draws > SIZE
  /\ hist.reseeded
  /\ ret = refret

\* C2: whatever was seeded and drawn before, seed(s) leaves the array and the
\* cursor exactly as seed(s) leaves them when called on the initial state
\* (SpecDiff).
C2_SeedForgetsHistory ==
  op = "seed" =>
    LET fresh == seed(ZeroArray, arg)
    IN  MT = fresh.MT /\ index = fresh.index

\* C2, witness: seed() called with the cursor inside a batch, after draws
\* made under a different seed.
C2_Witness ==
  /\ op = "seed"
  /\ hist.reseeded /\ hist.at > 0 /\ hist.at < SIZE
  /\ MT = seed(ZeroArray, arg).MT

\* C3 as stated: after seed(0) the first value of rand_u32() is 0xD091BB5C.
C3_Original ==
  (op = "rand_u32" /\ seeded /\ arg = U32(0, 0) /\ draws = 1)
    => ret = U32(\hD091, \hBB5C)

\* C3 as amended: seed(0) and seed(0xFFFFFFFF) complete (the cursor is 624 and
\* no array access left the array) and the first value rand_u32() returns is
\* 0x8C7F0AAC after seed(0) and 0x18FE69A3 after seed(0xFFFFFFFF).
C3_SeedEdgeCases ==
  /\ (op = "seed" /\ arg \in {U32(0, 0), U32(\hFFFF, \hFFFF)})
       => (index = SIZE /\ call.lo = 0 /\ call.hi = SIZE - 1
             /\ call.nw = SIZE)
  /\ (op = "rand_u32" /\ seeded /\ draws = 1 /\ arg = U32(0, 0))
       => ret = U32(\h8C7F, \h0AAC)
  /\ (op = "rand_u32" /\ seeded /\ draws = 1 /\ arg = U32(\hFFFF, \hFFFF))
       => ret = U32(\h18FE, \h69A3)

\* C3, witness: the first draw after seed(0xFFFFFFFF).
C3_Witness ==
  /\ op = "rand_u32" /\ seeded /\ draws = 1
  /\ arg = U32(\hFFFF, \hFFFF)
  /\ ret = U32(\h18FE, \h69A3)

\* C4: the k-th draw after a seed() twists exactly once if k mod 624 = 1 and
\* not at all otherwise, and seed() does not twist.
C4_TwistCadence ==
  /\ (seeded /\ IsDraw) => call.gens = (IF draws % SIZE = 1 THEN 1 ELSE 0)
  /\ op = "seed" => call.gens = 0

\* C4, witness: draw 625 after a seed() has twisted.
C4_Witness ==
  /\ seeded /\ op = "rand_u32"
  /\ draws = SIZE + 1
  /\ call.gens = 1

\* C5: the cursor is in [0, 624] in every state, the initial one and those
\* before any seed() included, and every array access of every call used an
\* index in [0, 623].
C5_InBounds ==
  /\ index >= 0 /\ index <= SIZE
  /\ op # "none" => (call.lo >= 0 /\ call.hi <= SIZE - 1)

\* C5, witness: a generator never seeded, drawn until the cursor is 624 again.
C5_Witness ==
  /\ ~seeded /\ IsDraw
  /\ index = SIZE
  /\ call.hi = SIZE - 1

\* C6 as stated: no draw is served before a seed() call.
C6_NoUnseededDraw ==
  IsDraw => seeded

C10_SeedRecurrence ==
  /\ op = "seed" =>
       /\ MT[0] = arg
       /\ \A i \in 1..(SIZE - 1) :
            MT[i] = Add32(Mul32(U32(\h6c07, \h8965),
                                XOR(MT[i - 1], SHR(MT[i - 1], 30))),
                          U32(0, i))
       /\ index = SIZE
  /\ (seeded /\ IsDraw /\ draws = 1) => call.gens = 1

\* C10, witness: seed(0xFFFFFFFF), whose products overflow 32 bits.
C10_Witness ==
  /\ op = "seed"
  /\ arg = U32(\hFFFF, \hFFFF)
  /\ MT[0] = arg
  /\ MT[1] = U32(\h4FE1, \hDA6D)

\* The two effects C7 names.  The cursor and the array indices stay in range:
ConcInRange ==
  /\ index >= 0 /\ index <= SIZE
  /\ call.lo >= 0 /\ (call.hi <= SIZE - 1)

\* and the draws read the array elements one after the other, none twice and
\* none skipped (emit holds <<batch, array index>> of each read).
ConcInOrder ==
  \A a \in 1..(Len(emit) - 1) :
    \/ emit[a + 1] = <<emit[a][1], emit[a][2] + 1>>
    \/ emit[a][2] = SIZE - 1 /\ emit[a + 1] = <<emit[a][1] + 1, 0>>

\* C7 as stated: calls on the shared generator exclude one another, so that
\* with two concurrent callers the cursor stays in [0, 624], no array index
\* leaves [0, 623] and no state word is emitted twice or skipped (SpecConc).
C7_NoInterference ==
  /\ ConcInRange
  /\ ConcInOrder

\* C9: on every array tried, the unrolled generate_numbers() leaves the 624
\* words the naive left-to-right pass leaves, and it writes the indices
\* 0, 1, ..., 623 once each, in that order (SpecTwist).
C9_UnrolledIsNaive ==
  op = "generate_numbers" =>
    /\ MT = ref.words
    /\ call.ord /\ call.nw = SIZE
    /\ call.lo = 0 /\ call.hi = SIZE - 1

\* C9, witness: a second twist in a row of an array that is not all zero.
C9_Witness ==
  /\ op = "generate_numbers"
  /\ draws >= 2
  /\ MT = ref.words
  /\ MT[0] # {} /\ MT[SIZE - 1] # {}
  /\ call.ord /\ call.nw = SIZE

\* C11: a rand_u32() call made with the cursor c < 624 returns the tempered
\* word c (y ^= y >> 11; y ^= (y << 7) & 0x9d2c5680; y ^= (y << 15) &
\* 0xefc60000; y ^= y >> 18, on 32 bits), leaves all 624 words as they were
\* and sets the cursor to c + 1; a call made with the cursor 624 twists the
\* array first, returns the tempered word 0 of the new batch and leaves the
\* cursor at 1.
C11_DrawStep ==
  [][op' = "rand_u32" =>
       IF index < SIZE
         THEN /\ index' = index + 1
              /\ MT' = MT
              /\ ret' = SpecTemper(MT[index])
         ELSE /\ index' = 1
              /\ MT' = NaiveTwist(MT)
              /\ ret' = SpecTemper(MT'[0])]_vars

\* C11, witness: the draw that opens the second batch after a seed(): it has
\* twisted, returned the tempered word 0, which is not zero, and left the
\* cursor at 1.
C11_Witness ==
  /\ op = "rand_u32" /\ seeded
  /\ draws = SIZE + 1
  /\ index = 1
  /\ ret = SpecTemper(MT[0]) /\ ret # {}

\* C12 as stated: for every 32-bit y the conditional term of the twist,
\* ((int32_t(y) << 31) >> 31) & 0x9908b0df, is evaluated without a trap and
\* equals 0x9908b0df when y is odd and 0 when y is even, whatever the build
\* does with signed overflow and signed shifts (SpecShift).
C12_TermIsUnsignedSelect ==
  op \in {"term", "trap"} =>
    /\ op = "term"
    /\ ret = (IF 0 \in arg THEN MAGIC ELSE {})

=============================================================================
